---- MODULE Spec2Model ----
(***************************************************************************)
(* Music Rounds Creator (src/main.py): the batch pipeline of               *)
(* DownloadWorker.  One run of DownloadWorker.run() is modelled as a       *)
(* sequential process (pc is its position in the source), together with    *)
(* the only operation another thread performs on it, DownloadWorker.stop().*)
(*                                                                         *)
(* Events are the four Qt signals of the worker:                           *)
(*   progress -> "Info", error -> "Error", memory_update -> "Memory",      *)
(*   finished -> "Done".                                                   *)
(* Job indices are 0-based as in the source (enumerate); links_data is a   *)
(* TLA+ sequence, so job k is links_data[k + 1].                           *)
(***************************************************************************)
EXTENDS Integers, Sequences, FiniteSets, TLC

(* ---------------------------------------------------------------------- *)
(* Bounds of the model                                                     *)
(* ---------------------------------------------------------------------- *)
\* longest submitted job list
MaxJobs == 3
\* number of distinct source URLs the submitter can enter
NumUrls == 2

(* ---------------------------------------------------------------------- *)
(* Program constants                                                       *)
(* ---------------------------------------------------------------------- *)
\* max_processing_time = 600  (seconds)
max_processing_time == 600
\* time.sleep(2) between songs
SleepSecs == 2
\* len(strategies): the strategy list of download_youtube_audio has one entry
NumStrategies == 1
\* clean_title[:40]
TitleLimit == 40

\* Wall-clock seconds one yt_dlp extract_info call may take.  298 lets the
\* elapsed time land exactly on the ceiling (298+2+298+2 = 600) and 601
\* lets it exceed the ceiling after a single job.
DownloadSecs == {0, 298, 601}

URLs == 1..NumUrls

\* What yt_dlp's extract_info can do for one strategy: write the expected
\* file, return normally without writing a file (ignoreerrors=True makes it
\* return None instead of raising), or raise.
DownloadOutcomes == {"file", "nofile", "raise"}

VARIABLES
    links_data,       \* self.links_data: the submitted jobs, each with its url
    pc,               \* position of run()
    is_running,       \* self.is_running
    i,                \* loop variable of run() (0-based)
    s,                \* loop variable of download_youtube_audio (0-based)
    video_title,      \* local video_title of download_youtube_audio
    elapsed,          \* time.time() - start_time
    processed_files,  \* processed_files of run()
    processed_urls,   \* processed_urls of run()
    temp_bound,       \* the local temp_dir of run() has been assigned
    ws_exists,        \* the temporary workspace exists on disk
    files,            \* audio files in the workspace: f is the file temp_<f>.mp3
    dest,             \* deliverables written to the destination directory
    events,           \* the run's event stream, in emission order
    fetchCalls,       \* history: job indices download_youtube_audio was called for
    dlCalls,          \* history: job indices extract_info was called for
    packagerCalls,    \* history: number of create_output_file calls
    clipCalls,        \* history: the create_audio_clip calls, [job, input, output]
    obs,              \* history: what the run read at its decision points
    timestamp_str,    \* argument of a parse_timestamp call
    parse_result,     \* what that call returned (empty until it returns)
    url_text,         \* argument of an extract_timestamp_from_url call
    extract_result,   \* what that call returned (empty until it returns)
    link_widgets,     \* MusicRoundsApp.link_widgets
    clip_pc,          \* position of a create_audio_clip call
    clip_args,        \* its arguments start_time, index and duration
    clip_result,      \* what it returned (empty until it returns)
    clip_log,         \* history: what each path of the call was given and did
    process_button,   \* MusicRoundsApp.process_button.isEnabled()
    stop_button,      \* MusicRoundsApp.stop_button.isEnabled()
    handled,          \* error and finished signals of the worker already handled
    orphans,          \* workers still executing that download_worker no longer names
    runs,             \* history: number of start_processing calls
    app_pc            \* position of the window's thread: "idle" or "waiting"

vars == <<links_data, pc, is_running, i, s, video_title, elapsed, processed_files,
          processed_urls, temp_bound, ws_exists, files, dest, events,
          fetchCalls, dlCalls, packagerCalls, clipCalls, obs,
          timestamp_str, parse_result, url_text, extract_result, link_widgets,
          clip_pc, clip_args, clip_result, clip_log,
          process_button, stop_button, handled, orphans, runs, app_pc>>

\* the variables of the window and of the timestamp functions
uiVars == <<timestamp_str, parse_result, url_text, extract_result, link_widgets>>

\* the variables of a create_audio_clip call
clipVars == <<clip_pc, clip_args, clip_result, clip_log>>

\* the variables of the window's buttons and of its thread
appVars == <<process_button, stop_button, handled, orphans, runs, app_pc>>

(* ---------------------------------------------------------------------- *)
(* Events                                                                  *)
(* ---------------------------------------------------------------------- *)
Info(m, k)  == [type |-> "Info",   msg |-> m, job |-> k]
Error(m, k) == [type |-> "Error",  msg |-> m, job |-> k]
Memory(k)   == [type |-> "Memory", msg |-> "memory_mb", job |-> k]
Done(o)     == [type |-> "Done",   msg |-> "output_path", job |-> -1]

\* number of events of es that satisfy Test
RECURSIVE CountType(_, _)
CountType(es, t) ==
    IF es = << >> THEN 0
    ELSE (IF Head(es).type = t THEN 1 ELSE 0) + CountType(Tail(es), t)

NumError == CountType(events, "Error")
NumDone  == CountType(events, "Done")
NumTerminal == NumError + NumDone

HasEvent(t, m) == \E n \in 1..Len(events) : events[n].type = t /\ events[n].msg = m

\* the run has returned (normally, or by an exception that left run())
Ended == {"done", "escaped"}

Job(k) == links_data[k + 1]
NJobs  == Len(links_data)

(* ---------------------------------------------------------------------- *)
(* Text: a str is a sequence of one-character strings                      *)
(* ---------------------------------------------------------------------- *)
DigitChars == <<"0", "1", "2", "3", "4", "5", "6", "7", "8", "9">>

Letters ==
    {"A", "B", "C", "D", "E", "F", "G", "H", "I", "J", "K", "L", "M",
     "N", "O", "P", "Q", "R", "S", "T", "U", "V", "W", "X", "Y", "Z",
     "a", "b", "c", "d", "e", "f", "g", "h", "i", "j", "k", "l", "m",
     "n", "o", "p", "q", "r", "s", "t", "u", "v", "w", "x", "y", "z"}

\* str.isdigit() and str.isalnum() on one character
IsDigit(c) == \E d \in 1..10 : DigitChars[d] = c
IsAlnum(c) == IsDigit(c) \/ c \in Letters

\* str(n) for n >= 0
RECURSIVE Str(_)
Str(n) == IF n < 10 THEN <<DigitChars[n + 1]>>
          ELSE Str(n \div 10) \o <<DigitChars[(n % 10) + 1]>>

\* f"{n:02d}" for n >= 0
Fmt02(n) == IF n < 10 THEN <<"0">> \o Str(n) ELSE Str(n)

\* f'Track {n}'
TrackTitle(n) == <<"T", "r", "a", "c", "k", " ">> \o Str(n)

\* title = link_data.get('title', f'Track {i+1}'); process_links always
\* supplies 'Track {i+1}'
JobTitle(k) == TrackTitle(k + 1)

\* info['title'] as yt_dlp reports it for a source URL: any text.  Source 1
\* has a title with a space and a dropped character, every other source a
\* title that sanitizes to the empty text.
UrlTitle(u) == IF u = 1 THEN <<"A", " ", "b", "!">> ELSE <<"!", "!">>

\* video_title = info.get('title', f'Track {index+1}') if info else f'Track {index+1}'
VideoTitle(k, outcome) ==
    IF outcome = "file" THEN UrlTitle(Job(k).url) ELSE TrackTitle(k + 1)

(* ---------------------------------------------------------------------- *)
(* Timestamps: parse_timestamp and extract_timestamp_from_url              *)
(* ---------------------------------------------------------------------- *)
\* Optional[int]: None, or an int
None == [none |-> TRUE, value |-> 0]
Some(n) == [none |-> FALSE, value |-> n]

\* str.lstrip() and str.strip()
RECURSIVE LStrip(_)
LStrip(x) == IF x # << >> /\ x[1] = " " THEN LStrip(Tail(x)) ELSE x

RECURSIVE StripEnd(_)
StripEnd(x) == IF x # << >> /\ x[Len(x)] = " " THEN StripEnd(SubSeq(x, 1, Len(x) - 1)) ELSE x

Strip(x) == LStrip(StripEnd(x))

\* sep in x
Contains(x, sep) == \E p \in 1..Len(x) : x[p] = sep

\* index of the first sep of x
FirstAt(x, sep) == CHOOSE p \in 1..Len(x) : x[p] = sep /\ \A q \in 1..(p - 1) : x[q] # sep

\* x.split(sep) for a one-character sep
RECURSIVE Split(_, _)
Split(x, sep) ==
    IF ~Contains(x, sep) THEN <<x>>
    ELSE <<SubSeq(x, 1, FirstAt(x, sep) - 1)>>
            \o Split(SubSeq(x, FirstAt(x, sep) + 1, Len(x)), sep)

\* sep.join(parts)
RECURSIVE Join(_, _)
Join(parts, sep) ==
    IF parts = << >> THEN << >>
    ELSE IF Len(parts) = 1 THEN parts[1]
    ELSE parts[1] \o <<sep>> \o Join(Tail(parts), sep)

DigitValue(c) == CHOOSE d \in 0..9 : DigitChars[d + 1] = c

\* the text after the optional sign of a stripped text
Unsigned(t) == IF t # << >> /\ t[1] \in {"+", "-"} THEN Tail(t) ELSE t

\* int(x) does not raise ValueError: surrounding whitespace, an optional
\* sign, then digits, with single underscores allowed between digits
IntAccepts(x) ==
    LET b == Unsigned(Strip(x))
    IN  /\ b # << >>
        /\ \A p \in 1..Len(b) : IsDigit(b[p]) \/ b[p] = "_"
        /\ IsDigit(b[1])
        /\ IsDigit(b[Len(b)])
        /\ \A p \in 1..(Len(b) - 1) : ~(b[p] = "_" /\ b[p + 1] = "_")

RECURSIVE NatValue(_)
NatValue(b) ==
    IF b = << >> THEN 0
    ELSE IF b[Len(b)] = "_" THEN NatValue(SubSeq(b, 1, Len(b) - 1))
    ELSE 10 * NatValue(SubSeq(b, 1, Len(b) - 1)) + DigitValue(b[Len(b)])

\* int(x) when it does not raise
IntValue(x) ==
    IF Strip(x)[1] = "-" THEN 0 - NatValue(Unsigned(Strip(x)))
    ELSE NatValue(Unsigned(Strip(x)))

\* line 61
MinutesSeconds(minutes, seconds) == minutes * 60 + seconds

\* faulty variant of HoursMinutesSeconds: hours weighed as minutes
M_HoursMinutesSeconds_AsMinutes(hours, minutes, seconds) ==
    hours * 60 + minutes * 60 + seconds

\* line 70
HoursMinutesSeconds(hours, minutes, seconds) ==
    hours * 3600 + minutes * 60 + seconds

\* lines 75-78: int(timestamp_str), None on ValueError
WholeSeconds(t) == IF IntAccepts(t) THEN Some(IntValue(t)) ELSE None

\* parse_timestamp, lines 47-78
parse_timestamp(text) ==
    IF text = << >> THEN None
    ELSE LET t == Strip(text)
             parts == Split(t, ":")
         IN  IF Contains(t, ":") /\ Len(parts) = 2
             THEN IF IntAccepts(parts[1]) /\ IntAccepts(parts[2])
                  THEN Some(MinutesSeconds(IntValue(parts[1]), IntValue(parts[2])))
                  ELSE None
             ELSE IF Contains(t, ":") /\ Len(parts) = 3
             THEN IF IntAccepts(parts[1]) /\ IntAccepts(parts[2]) /\ IntAccepts(parts[3])
                  THEN Some(HoursMinutesSeconds(IntValue(parts[1]), IntValue(parts[2]),
                                                IntValue(parts[3])))
                  ELSE None
             ELSE WholeSeconds(t)

\* the query parameter names of lines 88 and 93
ParamT == <<"t">>
ParamTimeContinue == <<"t", "i", "m", "e", "_", "c", "o", "n", "t", "i", "n", "u", "e">>

\* a '+' of a query name or value decodes to a space
PlusToSpace(x) == [n \in 1..Len(x) |-> IF x[n] = "+" THEN " " ELSE x[n]]

\* one field of a query: the name before its first '=' and the value after it
\* (a field without '=' has no value)
Field(f) ==
    IF Contains(f, "=")
    THEN [name  |-> PlusToSpace(SubSeq(f, 1, FirstAt(f, "=") - 1)),
          value |-> PlusToSpace(SubSeq(f, FirstAt(f, "=") + 1, Len(f)))]
    ELSE [name |-> PlusToSpace(f), value |-> << >>]

\* urllib.parse.parse_qsl(query) as parse_qs calls it at line 85: the fields
\* between '&', in order; fields with a blank value are dropped
\* (keep_blank_values=False)
parse_qsl(query) ==
    SelectSeq([n \in 1..Len(Split(query, "&")) |-> Field(Split(query, "&")[n])],
              LAMBDA f : f.value # << >>)

\* query_params[name], the values of the fields called name, in order
Values(pairs, name) == SelectSeq(pairs, LAMBDA f : f.name = name)

\* faulty variant of extract_timestamp_from_url: time_continue is looked up
\* before t
M_extract_TimeContinueFirst(u) ==
    IF u.kind = "malformed" THEN None
    ELSE IF Values(parse_qsl(u.query), ParamTimeContinue) # << >>
         THEN parse_timestamp(Values(parse_qsl(u.query), ParamTimeContinue)[1].value)
    ELSE IF Values(parse_qsl(u.query), ParamT) # << >>
         THEN parse_timestamp(Values(parse_qsl(u.query), ParamT)[1].value)
    ELSE None

\* extract_timestamp_from_url, lines 81-100.  A URL is its kind, its video
\* and the text of its query (for a watch URL, the fields after v=<video>);
\* urlparse raises ValueError on a malformed URL, which line 97 catches.
extract_timestamp_from_url(u) ==
    IF u.kind = "malformed" THEN None
    ELSE IF Values(parse_qsl(u.query), ParamT) # << >>
         THEN parse_timestamp(Values(parse_qsl(u.query), ParamT)[1].value)
    ELSE IF Values(parse_qsl(u.query), ParamTimeContinue) # << >>
         THEN parse_timestamp(Values(parse_qsl(u.query), ParamTimeContinue)[1].value)
    ELSE None

\* lines 673-716: the buttons of a window that has started no worker
WindowIdle ==
    /\ process_button = TRUE
    /\ stop_button = FALSE
    /\ handled = 0
    /\ orphans = 0
    /\ runs = 0
    /\ app_pc = "idle"

\* lines 1052-1055 and 1076-1081: the buttons once start_processing has
\* started the first worker
WindowStarted ==
    /\ process_button = FALSE
    /\ stop_button = TRUE
    /\ handled = 0
    /\ orphans = 0
    /\ runs = 1
    /\ app_pc = "idle"

\* no parse_timestamp or extract_timestamp_from_url call is followed and the
\* window holds no link
UiIdle ==
    /\ timestamp_str = << >>
    /\ parse_result = << >>
    /\ url_text = [kind |-> "empty", video |-> 0, query |-> << >>]
    /\ extract_result = << >>
    /\ link_widgets = << >>

(* ---------------------------------------------------------------------- *)
(* DownloadWorker.create_audio_clip                                        *)
(* ---------------------------------------------------------------------- *)
\* no create_audio_clip call is followed
ClipIdle ==
    /\ clip_pc = "idle"
    /\ clip_args = [start_time |-> 0, index |-> 0, duration |-> 15]
    /\ clip_result = << >>
    /\ clip_log = << >>

(* ---------------------------------------------------------------------- *)
(* Initial state: a worker constructed by start_processing and started     *)
(* ---------------------------------------------------------------------- *)
JobSet == [url : URLs]

Init ==
    /\ links_data \in UNION {[1..n -> JobSet] : n \in 1..MaxJobs}
    /\ pc = "start"
    /\ is_running = TRUE
    /\ i = 0
    /\ s = 0
    /\ video_title = << >>
    /\ elapsed = 0
    /\ processed_files = << >>
    /\ processed_urls = {}
    /\ temp_bound = FALSE
    /\ ws_exists = FALSE
    /\ files = {}
    /\ dest = {}
    /\ events = << >>
    /\ fetchCalls = << >>
    /\ dlCalls = << >>
    /\ packagerCalls = 0
    /\ clipCalls = << >>
    /\ obs = {}
    /\ UiIdle
    /\ ClipIdle
    /\ WindowStarted

(* ---------------------------------------------------------------------- *)
(* Helpers of run()                                                        *)
(* ---------------------------------------------------------------------- *)
Emit(es) == events' = events \o es

\* faulty variant of TimedOut: the ceiling taken for milliseconds
M_TimedOut_Millis(e) == e > max_processing_time * 1000

\* line 141: time.time() - start_time > max_processing_time
TimedOut(e) == e > max_processing_time

\* line 156: url in processed_urls
IsDuplicate(url, seen) == url \in seen

\* faulty variant of Remember: the URL is never added to the set
M_Remember_Forgets(seen, url) == seen

\* line 160: processed_urls.add(url)
Remember(seen, url) == seen \cup {url}

\* faulty variant of MayPackage: the flag is not consulted after the loop
M_MayPackage_IgnoresStop(pf, running) == pf # << >>

\* line 201: if processed_files and self.is_running
MayPackage(pf, running) == pf # << >> /\ running

\* faulty variant of OuterExcept: the handler reports nothing
M_OuterExcept_Silent(es) ==
    /\ Emit(es)
    /\ pc' = "finally"

\* lines 210-211: the outer handler of run(), then the finally block
OuterExcept(es) ==
    /\ Emit(es \o <<Error("Processing failed", -1)>>)
    /\ pc' = "finally"

\* faulty variant of FetchReturned: the clip is recorded under its position
\* among the accepted jobs instead of the job's index
M_FetchReturned_Position(es, f, title) ==
    /\ Emit(es \o <<Info("Downloaded to", i), Info("Added to processing list", i)>>)
    /\ processed_files' = Append(processed_files,
                                 [file |-> f, title |-> title, index |-> Len(processed_files)])
    /\ pc' = "mem"

\* faulty variant of FetchReturned: the new clip replaces the accumulated ones
M_FetchReturned_Replaces(es, f, title) ==
    /\ Emit(es \o <<Info("Downloaded to", i), Info("Added to processing list", i)>>)
    /\ processed_files' = <<[file |-> f, title |-> title, index |-> i]>>
    /\ pc' = "mem"

\* lines 170-180: download_youtube_audio returned (audio_file, video_title)
FetchReturned(es, f, title) ==
    /\ Emit(es \o <<Info("Downloaded to", i), Info("Added to processing list", i)>>)
    /\ processed_files' = Append(processed_files, [file |-> f, title |-> title, index |-> i])
    /\ pc' = "mem"

\* faulty variant of FetchReturnedNone: a failed job is sampled before the break
M_FetchReturnedNone_Samples(es) ==
    /\ Emit(es \o <<Info("Failed to download audio", i), Memory(i)>>)
    /\ processed_files' = processed_files
    /\ pc' = "post"

\* lines 181-184: download_youtube_audio returned None
FetchReturnedNone(es) ==
    /\ Emit(es \o <<Info("Failed to download audio", i)>>)
    /\ processed_files' = processed_files
    /\ pc' = "post"

\* lines 186-189: download_youtube_audio raised
FetchRaised(es) ==
    /\ Emit(es \o <<Error("Error processing", i)>>)
    /\ processed_files' = processed_files
    /\ pc' = "post"

(* ---------------------------------------------------------------------- *)
(* DownloadWorker.run()                                                    *)
(* ---------------------------------------------------------------------- *)
\* lines 117-134: create the workspace.  tempfile.mkdtemp or the mkdir of the
\* output subdirectory can raise OSError.
CreateTempDir ==
    /\ pc = "start"
    /\ \E outcome \in {"ok", "mkdtemp_raises", "mkdir_raises"} :
         /\ temp_bound' = (outcome # "mkdtemp_raises")
         /\ ws_exists' = (outcome # "mkdtemp_raises")
         /\ IF outcome = "ok"
            THEN /\ Emit(<<Info("Created temporary directory", -1),
                           Info("Output directory", -1),
                           Info("Starting download process", -1)>>)
                 /\ pc' = "loop"
            ELSE OuterExcept(<< >>)
    /\ elapsed' = 0
    /\ processed_files' = << >>
    /\ processed_urls' = {}
    /\ i' = 0
    /\ UNCHANGED <<appVars, uiVars, clipVars, clipCalls, links_data, is_running, s, video_title, files, dest, fetchCalls, dlCalls,
                   packagerCalls, obs>>

\* lines 136-138: the for statement and the first read of is_running
LoopHead ==
    /\ pc = "loop"
    /\ IF i >= NJobs
       THEN pc' = "post" /\ obs' = obs
       ELSE IF ~is_running
            THEN /\ pc' = "post"
                 /\ obs' = obs \cup {[what |-> "cancel", job |-> i]}
            ELSE pc' = "time" /\ obs' = obs
    /\ UNCHANGED <<appVars, uiVars, clipVars, clipCalls, links_data, is_running, i, s, video_title, elapsed, processed_files,
                   processed_urls, temp_bound, ws_exists, files, dest, events,
                   fetchCalls, dlCalls, packagerCalls>>

\* lines 140-143: the elapsed-time budget
CheckTimeout ==
    /\ pc = "time"
    \* history: the fact itself, whatever the code decides below
    /\ obs' = IF elapsed > 600
              THEN obs \cup {[what |-> "over", job |-> i]}
              ELSE obs
    /\ IF TimedOut(elapsed)
       THEN /\ Emit(<<Error("Processing timeout", -1)>>)
            /\ pc' = "post"
       ELSE /\ pc' = "stop2"
            /\ events' = events
    /\ UNCHANGED <<appVars, uiVars, clipVars, clipCalls, links_data, is_running, i, s, video_title, elapsed, processed_files,
                   processed_urls, temp_bound, ws_exists, files, dest,
                   fetchCalls, dlCalls, packagerCalls>>

\* lines 145-148: the second read of is_running
CheckRunning2 ==
    /\ pc = "stop2"
    /\ IF ~is_running
       THEN /\ Emit(<<Info("Processing stopped by user", -1)>>)
            /\ pc' = "post"
            /\ obs' = obs \cup {[what |-> "cancel", job |-> i]}
       ELSE /\ pc' = "dedup"
            /\ events' = events
            /\ obs' = obs
    /\ UNCHANGED <<appVars, uiVars, clipVars, clipCalls, links_data, is_running, i, s, video_title, elapsed, processed_files,
                   processed_urls, temp_bound, ws_exists, files, dest,
                   fetchCalls, dlCalls, packagerCalls>>

\* lines 150-161: read the job, skip a repeated URL, remember a new one
Dedup ==
    /\ pc = "dedup"
    /\ obs' = IF \E j \in 0..(i - 1) : Job(j).url = Job(i).url
              THEN obs \cup {[what |-> "dup", job |-> i]}
              ELSE obs
    /\ IF IsDuplicate(Job(i).url, processed_urls)
       THEN /\ Emit(<<Info("Skipping duplicate URL", i)>>)
            /\ i' = i + 1
            /\ pc' = "loop"
            /\ processed_urls' = processed_urls
       ELSE /\ processed_urls' = Remember(processed_urls, Job(i).url)
            /\ Emit(<<Info("Processing", i)>>)
            /\ i' = i
            /\ pc' = "call"
    /\ UNCHANGED <<appVars, uiVars, clipVars, clipCalls, links_data, is_running, s, video_title, elapsed, processed_files,
                   temp_bound, ws_exists, files, dest, fetchCalls, dlCalls,
                   packagerCalls>>

\* lines 163-169 and 227-234: announce the job and enter download_youtube_audio
CallFetcher ==
    /\ pc = "call"
    /\ Emit(<<Info("Downloading audio for", i), Info("URL", i),
              Info("Start time", i), Info("Duration", i),
              Info("Download target path", i),
              Info("Using external downloader", i)>>)
    /\ fetchCalls' = Append(fetchCalls, i)
    /\ s' = 0
    /\ pc' = "strategy"
    /\ UNCHANGED <<appVars, uiVars, clipVars, clipCalls, links_data, is_running, i, video_title, elapsed, processed_files,
                   processed_urls, temp_bound, ws_exists, files, dest, dlCalls,
                   packagerCalls, obs>>

\* faulty variant of Cancelled: the flag is never seen set
M_Cancelled_Never(running) == FALSE

\* line 270: if not self.is_running
Cancelled(running) == ~running

\* lines 268-272 and 321: the head of the strategy loop.  When the list is
\* exhausted the function raises "All download strategies failed".
StrategyHead ==
    /\ pc = "strategy"
    /\ IF s >= NumStrategies
       THEN FetchRaised(<< >>)
       ELSE IF Cancelled(is_running)
            THEN FetchReturnedNone(<<Info("Download stopped by user", i)>>)
            ELSE /\ Emit(<<Info("Trying download strategy", i)>>)
                 /\ processed_files' = processed_files
                 /\ pc' = "download"
    /\ obs' = IF s < NumStrategies /\ ~is_running
              THEN obs \cup {[what |-> "cancel_fetch", job |-> i]}
              ELSE obs
    /\ UNCHANGED <<appVars, uiVars, clipVars, clipCalls, links_data, is_running, i, s, video_title, elapsed, processed_urls,
                   temp_bound, ws_exists, files, dest, fetchCalls, dlCalls,
                   packagerCalls>>

\* lines 274-282 and 313-319: one strategy's yt_dlp call.  A raising call on
\* the last strategy makes download_youtube_audio return None.
Download ==
    /\ pc = "download"
    /\ dlCalls' = Append(dlCalls, i)
    /\ \E d \in DownloadSecs, outcome \in DownloadOutcomes :
         /\ elapsed' = elapsed + d
         /\ files' = IF outcome = "file" THEN files \cup {i} ELSE files
         /\ IF outcome = "raise"
            THEN /\ video_title' = video_title
                 /\ IF s = NumStrategies - 1
                    THEN /\ FetchReturnedNone(<<Info("Strategy failed", i),
                                                Info("All download strategies exhausted", i)>>)
                         /\ s' = s
                    ELSE /\ Emit(<<Info("Strategy failed", i)>>)
                         /\ processed_files' = processed_files
                         /\ s' = s + 1
                         /\ pc' = "strategy"
            ELSE /\ video_title' = VideoTitle(i, outcome)
                 /\ Emit(<<Info("Video title", i)>>)
                 /\ processed_files' = processed_files
                 /\ s' = s
                 /\ pc' = "search"
    /\ UNCHANGED <<appVars, uiVars, clipVars, clipCalls, links_data, is_running, i, processed_urls, temp_bound,
                   ws_exists, dest, fetchCalls, packagerCalls, obs>>

\* faulty variant of FindFile: a found file is reported but the strategy loop
\* goes on with the next strategy
M_FindFile_TriesNext ==
    /\ pc = "search"
    /\ IF files # {}
       THEN Emit(<<Info("Searching for downloaded file", i),
                   Info("Found downloaded file", i)>>)
       ELSE Emit(<<Info("Searching for downloaded file", i),
                   Info("Searching for files with pattern", i),
                   Info("Searching for any audio files", i),
                   Info("Listing all files", i),
                   Info("Strategy completed but no file found", i)>>)
    /\ processed_files' = processed_files
    /\ s' = s + 1
    /\ pc' = "strategy"
    /\ UNCHANGED <<appVars, uiVars, clipVars, clipCalls, links_data, is_running, i, video_title, elapsed,
                   processed_urls, temp_bound, ws_exists, files, dest,
                   fetchCalls, dlCalls, packagerCalls, obs>>

\* lines 284-311: look for the downloaded file: (a) temp_<index> plus a known
\* extension, (b) glob temp_<index>.*, (c) any audio file of the workspace,
\* in the order the directory listing yields them.
FindFile ==
    /\ pc = "search"
    /\ IF i \in files
       THEN /\ FetchReturned(<<Info("Searching for downloaded file", i),
                               Info("Found downloaded file", i)>>, i, video_title)
            /\ s' = s
       ELSE IF files # {}
            THEN /\ \E f \in files :
                      FetchReturned(<<Info("Searching for downloaded file", i),
                                      Info("Searching for files with pattern", i),
                                      Info("Searching for any audio files", i),
                                      Info("Found audio file", i)>>, f, video_title)
                 /\ s' = s
            ELSE /\ Emit(<<Info("Searching for downloaded file", i),
                           Info("Searching for files with pattern", i),
                           Info("Searching for any audio files", i),
                           Info("Listing all files", i),
                           Info("Strategy completed but no file found", i)>>)
                 /\ processed_files' = processed_files
                 /\ s' = s + 1
                 /\ pc' = "strategy"
    /\ UNCHANGED <<appVars, uiVars, clipVars, clipCalls, links_data, is_running, i, video_title, elapsed,
                   processed_urls, temp_bound, ws_exists, files, dest,
                   fetchCalls, dlCalls, packagerCalls, obs>>

\* lines 191-194: gc.collect() and the memory_update signal
MemorySample ==
    /\ pc = "mem"
    /\ Emit(<<Memory(i)>>)
    /\ pc' = "pause"
    /\ UNCHANGED <<appVars, uiVars, clipVars, clipCalls, links_data, is_running, i, s, video_title, elapsed,
                   processed_files, processed_urls, temp_bound, ws_exists,
                   files, dest, fetchCalls, dlCalls, packagerCalls, obs>>

\* faulty variant of MoreJobs: a pause after every job
M_MoreJobs_Always(k, n) == TRUE

\* line 197: if i < len(self.links_data) - 1
MoreJobs(k, n) == k < n - 1

\* lines 196-199: the pause between songs, then the next iteration
Pause ==
    /\ pc = "pause"
    /\ IF MoreJobs(i, NJobs)
       THEN /\ Emit(<<Info("Waiting 2 seconds before next song", i)>>)
            /\ elapsed' = elapsed + SleepSecs
       ELSE /\ events' = events
            /\ elapsed' = elapsed
    /\ i' = i + 1
    /\ pc' = "loop"
    /\ UNCHANGED <<appVars, uiVars, clipVars, clipCalls, links_data, is_running, s, video_title, processed_files,
                   processed_urls, temp_bound, ws_exists, files, dest,
                   fetchCalls, dlCalls, packagerCalls, obs>>

\* faulty variant of PostLoopElse: the else branch reports nothing
M_PostLoopElse_Silent ==
    /\ events' = events
    /\ pc' = "finally"

\* faulty variant of PostLoopElse: the branch returns without reaching the cleanup
M_PostLoopElse_Returns ==
    /\ Emit(<<Error("No files were successfully processed", -1)>>)
    /\ pc' = "done"

\* lines 207-208: nothing to package, or the run was stopped
PostLoopElse ==
    /\ Emit(<<Error("No files were successfully processed", -1)>>)
    /\ pc' = "finally"

\* lines 201-208: after the loop
PostLoop ==
    /\ pc = "post"
    /\ IF MayPackage(processed_files, is_running)
       THEN /\ Emit(<<Info("Creating output", -1)>>)
            /\ pc' = "package"
       ELSE PostLoopElse
    /\ obs' = IF processed_files # << >> /\ ~is_running
              THEN obs \cup {[what |-> "stopped_with_clips", job |-> -1]}
              ELSE obs
    /\ UNCHANGED <<appVars, uiVars, clipVars, clipCalls, links_data, is_running, i, s, video_title, elapsed,
                   processed_files, processed_urls, temp_bound, ws_exists,
                   files, dest, fetchCalls, dlCalls, packagerCalls>>

\* str.rstrip(): drop the trailing spaces
RECURSIVE RStrip(_)
RStrip(x) == IF x # << >> /\ x[Len(x)] = " " THEN RStrip(SubSeq(x, 1, Len(x) - 1)) ELSE x

\* x[:n]
Take(x, n) == SubSeq(x, 1, IF Len(x) < n THEN Len(x) ELSE n)

\* str.replace(' ', '_')
Underscored(x) == [n \in 1..Len(x) |-> IF x[n] = " " THEN "_" ELSE x[n]]

\* faulty variant of CleanTitle: the result is not cut to 40 characters
M_CleanTitle_NoLimit(title) ==
    Underscored(RStrip(SelectSeq(title, LAMBDA c : IsAlnum(c) \/ c \in {" ", "-", "_"})))

\* lines 417-419 and 444-446:
\*   clean_title = "".join(c for c in title if c.isalnum() or c in (' ', '-', '_')).rstrip()
\*   clean_title = clean_title.replace(' ', '_')[:40]
CleanTitle(title) ==
    Take(Underscored(RStrip(SelectSeq(title, LAMBDA c : IsAlnum(c) \/ c \in {" ", "-", "_"}))),
         TitleLimit)

Mp3Ext == <<".", "m", "p", "3">>

\* line 420: output_filename = f"{clean_title}.mp3"
SingleName(title) == CleanTitle(title) \o Mp3Ext

\* faulty variant of ArcName: the prefix is the 0-based index
M_ArcName_ZeroBased(index, title) ==
    Fmt02(index) \o <<"-">> \o CleanTitle(title) \o Mp3Ext

\* faulty variant of ArcName: the entry is named after the title alone
M_ArcName_NoPrefix(index, title) == CleanTitle(title) \o Mp3Ext

\* line 447: arcname = f"{index+1:02d}-{clean_title}.mp3"
ArcName(index, title) ==
    Fmt02(index + 1) \o <<"-">> \o CleanTitle(title) \o Mp3Ext

\* faulty variant of Deliverable: an archive whatever the number of clips
M_Deliverable_AlwaysZip(pf) ==
    [kind    |-> "zip",
     entries |-> [n \in 1..Len(pf) |-> ArcName(pf[n].index, pf[n].title)]]

\* lines 410-453: what create_output_file writes for the list pf: a single
\* bare file, or one zip archive whose entries follow the list
Deliverable(pf) ==
    IF Len(pf) = 1
    THEN [kind |-> "file", entries |-> <<SingleName(pf[1].title)>>]
    ELSE [kind    |-> "zip",
          entries |-> [n \in 1..Len(pf) |-> ArcName(pf[n].index, pf[n].title)]]

\* lines 204-206, 391-453 and 210-211: create_output_file and the finished
\* signal; shutil.copy2 and zipfile can raise OSError, and a zip that was
\* opened before the failure stays in the destination directory
CreateOutputFile ==
    /\ pc = "package"
    /\ packagerCalls' = packagerCalls + 1
    /\ \E outcome \in {"ok", "raise", "raise_partial"} :
         /\ IF outcome = "ok"
            THEN /\ dest' = dest \cup {Deliverable(processed_files)}
                 /\ Emit(<<Info("Output directory", -1), Info("Files to include", -1),
                           Info("Writing output", -1), Info("Output completed", -1),
                           Info("Output created", -1), Done("output_path")>>)
                 /\ pc' = "finally"
            ELSE /\ dest' = IF outcome = "raise_partial"
                            THEN dest \cup {[kind |-> "partial", entries |-> << >>]}
                            ELSE dest
                 /\ OuterExcept(<<Info("Output directory", -1), Info("Files to include", -1),
                                  Info("Writing output", -1)>>)
         /\ obs' = IF outcome = "ok" THEN obs
                   ELSE obs \cup {[what |-> "packager_raised", job |-> -1]}
    /\ UNCHANGED <<appVars, uiVars, clipVars, clipCalls, links_data, is_running, i, s, video_title, elapsed,
                   processed_files, processed_urls, temp_bound, ws_exists,
                   files, fetchCalls, dlCalls>>

\* faulty variant of CleanupEvents: a failed removal is reported as an Error
M_CleanupEvents_Escalates(removed) ==
    IF removed
    THEN <<Info("Cleaning up temporary directory", -1),
           Info("Temporary directory deleted", -1)>>
    ELSE <<Info("Cleaning up temporary directory", -1),
           Error("Could not clean up temp directory", -1)>>

\* lines 216-218: what the finally block reports, whether rmtree removed the
\* workspace or not (ignore_errors=True: a failed removal raises nothing)
CleanupEvents(removed) ==
    <<Info("Cleaning up temporary directory", -1),
      Info("Temporary directory deleted", -1)>>

\* lines 212-220: the finally block.  shutil.rmtree(ignore_errors=True)
\* swallows a failed removal.  With temp_dir unassigned (mkdtemp raised) the
\* f-string of line 216 raises NameError, and so does the one of the handler
\* at line 220: the exception leaves run().
Cleanup ==
    /\ pc = "finally"
    /\ IF temp_bound
       THEN /\ \E removed \in BOOLEAN :
                 /\ ws_exists' = (ws_exists /\ ~removed)
                 /\ files' = IF removed THEN {} ELSE files
                 /\ obs' = obs \cup {[what |-> IF removed THEN "removed" ELSE "remove_failed",
                                      job |-> -1]}
                 /\ Emit(CleanupEvents(removed))
            /\ pc' = "done"
       ELSE /\ ws_exists' = ws_exists
            /\ files' = files
            /\ events' = events
            /\ obs' = obs
            /\ pc' = "escaped"
    /\ UNCHANGED <<appVars, uiVars, clipVars, clipCalls, links_data, is_running, i, s, video_title, elapsed,
                   processed_files, processed_urls, temp_bound, dest,
                   fetchCalls, dlCalls, packagerCalls>>

(* ---------------------------------------------------------------------- *)
(* DownloadWorker.stop(), called from the submitter's thread               *)
(* ---------------------------------------------------------------------- *)
\* lines 222-223
Stop ==
    /\ is_running' = FALSE
    /\ UNCHANGED <<appVars, uiVars, clipVars, clipCalls, links_data, pc, i, s, video_title, elapsed, processed_files,
                   processed_urls, temp_bound, ws_exists, files, dest, events,
                   fetchCalls, dlCalls, packagerCalls, obs>>

(* ---------------------------------------------------------------------- *)
(* Specifications                                                          *)
(* ---------------------------------------------------------------------- *)
\* the steps of the worker thread
Run ==
    \/ CreateTempDir
    \/ LoopHead
    \/ CheckTimeout
    \/ CheckRunning2
    \/ Dedup
    \/ CallFetcher
    \/ StrategyHead
    \/ Download
    \/ FindFile
    \/ MemorySample
    \/ Pause
    \/ PostLoop
    \/ CreateOutputFile
    \/ Cleanup

Next == Run \/ Stop

Spec == Init /\ [][Next]_vars

\* The worker thread keeps running while it has a step to take: every
\* external call (download, copy, removal) returns.
LiveSpec == Init /\ [][Next]_vars /\ WF_vars(Run)

(* ---------------------------------------------------------------------- *)
(* Packaging on its own: run() at line 201 with an accumulator that holds  *)
(* the clips of some jobs of a longer list, under titles yt_dlp reported   *)
(* ---------------------------------------------------------------------- *)
\* most clips in the accumulator
MaxClips == 2

\* job indices of the accumulated clips: 1- and 2-digit prefixes and beyond
PackIndices == {0, 9, 10, 99}

PackTitles ==
    {
     \* 'Rick Astley: Never Gonna Give You Up!!' (38 characters)
     <<"R", "i", "c", "k", " ", "A", "s", "t", "l", "e", "y", ":",
       " ", "N", "e", "v", "e", "r", " ", "G", "o", "n", "n", "a",
       " ", "G", "i", "v", "e", " ", "Y", "o", "u", " ", "U", "p",
       "!", "!">>,
     \* 'Rick Astley - Never Gonna Give You Up (Official Music Video)' (60 characters)
     <<"R", "i", "c", "k", " ", "A", "s", "t", "l", "e", "y", " ",
       "-", " ", "N", "e", "v", "e", "r", " ", "G", "o", "n", "n",
       "a", " ", "G", "i", "v", "e", " ", "Y", "o", "u", " ", "U",
       "p", " ", "(", "O", "f", "f", "i", "c", "i", "a", "l", " ",
       "M", "u", "s", "i", "c", " ", "V", "i", "d", "e", "o", ")">>,
     \* 'Rick Astley Never Gonna Give You Up 200   ??' (44 characters)
     <<"R", "i", "c", "k", " ", "A", "s", "t", "l", "e", "y", " ",
       "N", "e", "v", "e", "r", " ", "G", "o", "n", "n", "a", " ",
       "G", "i", "v", "e", " ", "Y", "o", "u", " ", "U", "p", " ",
       "2", "0", "0", " ", " ", " ", "?", "?">>,
     \* '!!' (2 characters)
     <<"!", "!">>,
     \* 'a b  !' (6 characters)
     <<"a", " ", "b", " ", " ", "!">>,
     \* '' (0 characters)
     << >>,
     \* 'Track 1' (7 characters)
     <<"T", "r", "a", "c", "k", " ", "1">>
    }

\* strictly increasing index lists of length k
IncreasingIndices(k) ==
    {ix \in [1..k -> PackIndices] : \A a, b \in 1..k : a < b => ix[a] < ix[b]}

PackInputs ==
    UNION {{[n \in 1..k |-> [file |-> ix[n], title |-> ti[n], index |-> ix[n]]] :
                ix \in IncreasingIndices(k), ti \in [1..k -> PackTitles]} :
           k \in 1..MaxClips}

PackInit ==
    /\ processed_files \in PackInputs
    /\ links_data = [n \in 1..(processed_files[Len(processed_files)].index + 1) |-> [url |-> n]]
    /\ pc = "post"
    /\ is_running = TRUE
    /\ i = Len(links_data)
    /\ s = 0
    /\ video_title = << >>
    /\ elapsed = 0
    /\ processed_urls = {links_data[n].url : n \in 1..Len(links_data)}
    /\ temp_bound = TRUE
    /\ ws_exists = TRUE
    /\ files = {processed_files[n].file : n \in 1..Len(processed_files)}
    /\ dest = {}
    /\ events = << >>
    /\ fetchCalls = [n \in 1..Len(processed_files) |-> processed_files[n].index]
    /\ dlCalls = fetchCalls
    /\ packagerCalls = 0
    /\ clipCalls = << >>
    /\ obs = {}
    /\ UiIdle
    /\ ClipIdle
    /\ WindowStarted

PackNext == PostLoop \/ CreateOutputFile \/ Cleanup

PackSpec == PackInit /\ [][PackNext]_vars

(* ---------------------------------------------------------------------- *)
(* parse_timestamp on its own                                              *)
(* ---------------------------------------------------------------------- *)
\* no worker has been constructed: self.download_worker is None
NoWorker ==
    /\ links_data = << >>
    /\ pc = "idle"
    /\ is_running = TRUE
    /\ i = 0
    /\ s = 0
    /\ video_title = << >>
    /\ elapsed = 0
    /\ processed_files = << >>
    /\ processed_urls = {}
    /\ temp_bound = FALSE
    /\ ws_exists = FALSE
    /\ files = {}
    /\ dest = {}
    /\ events = << >>
    /\ fetchCalls = << >>
    /\ dlCalls = << >>
    /\ packagerCalls = 0
    /\ clipCalls = << >>
    /\ obs = {}
    /\ WindowIdle

workerVars == <<links_data, pc, is_running, i, s, video_title, elapsed, processed_files,
                processed_urls, temp_bound, ws_exists, files, dest, events,
                fetchCalls, dlCalls, packagerCalls, clipCalls, obs>>

\* the most colon-separated parts of a timestamp text
MaxParts == 4

\* the texts between the colons
PartTexts ==
    {<< >>, <<"1">>, <<"8", "3">>, <<"2", "3">>,
     <<"0", "2">>, <<"-", "5">>, <<" ", "7", " ">>, <<"a">>,
     <<"1", "_", "0">>}

\* the timestamp texts handed to parse_timestamp
TimestampTexts ==
    {Join(ps, ":") : ps \in UNION {[1..k -> PartTexts] : k \in 1..MaxParts}}

ParseInit ==
    /\ NoWorker
    /\ ClipIdle
    /\ timestamp_str \in TimestampTexts
    /\ parse_result = << >>
    /\ url_text = [kind |-> "empty", video |-> 0, query |-> << >>]
    /\ extract_result = << >>
    /\ link_widgets = << >>

\* one call parse_timestamp(timestamp_str)
ParseTimestamp ==
    /\ parse_result = << >>
    /\ parse_result' = <<parse_timestamp(timestamp_str)>>
    /\ UNCHANGED <<appVars, workerVars, clipVars, timestamp_str, url_text, extract_result, link_widgets>>

ParseNext == ParseTimestamp

ParseSpec == ParseInit /\ [][ParseNext]_vars

(* ---------------------------------------------------------------------- *)
(* extract_timestamp_from_url on its own                                   *)
(* ---------------------------------------------------------------------- *)
\* the most fields of a query
MaxFields == 2

\* the fields between the '&' of a query
QueryFieldTexts ==
    {<<"t", "=", "4", "5">>, <<"t", "=">>,
     <<"t", "=", "a">>, <<"t">>,
     <<"t", "i", "m", "e", "_", "c", "o", "n", "t", "i", "n", "u", "e", "=", "3", "0">>, <<"v", "=", "I">>,
     <<"t", "=", "1", ":", "2", "3">>, <<"t", "=", "+", "5">>}

QueryTexts ==
    {Join(fs, "&") : fs \in UNION {[1..k -> QueryFieldTexts] : k \in 0..MaxFields}}

\* the URLs handed to extract_timestamp_from_url
ExtractUrls == [kind : {"short", "malformed"}, video : {1}, query : QueryTexts]

ExtractInit ==
    /\ NoWorker
    /\ ClipIdle
    /\ timestamp_str = << >>
    /\ parse_result = << >>
    /\ url_text \in ExtractUrls
    /\ extract_result = << >>
    /\ link_widgets = << >>

\* one call extract_timestamp_from_url(url)
ExtractTimestamp ==
    /\ extract_result = << >>
    /\ extract_result' = <<extract_timestamp_from_url(url_text)>>
    /\ UNCHANGED <<appVars, workerVars, clipVars, timestamp_str, parse_result, url_text, link_widgets>>

ExtractNext == ExtractTimestamp

ExtractSpec == ExtractInit /\ [][ExtractNext]_vars

(* ---------------------------------------------------------------------- *)
(* The window: add_link, the duration spin boxes, process_links            *)
(* ---------------------------------------------------------------------- *)
\* the most links the window holds
MaxWidgets == 2

\* duration_spinbox.setMinimum(12), setMaximum(20); add_link's default 15
DurationMin == 12
DurationMax == 20
DefaultDuration == 15

\* f"{n}" for an int n
IntStr(n) == IF n < 0 THEN <<"-">> \o Str(0 - n) ELSE Str(n)

\* QSpinBox keeps its value within [minimum, maximum]
SpinBoxValue(v) ==
    IF v < DurationMin THEN DurationMin
    ELSE IF v > DurationMax THEN DurationMax
    ELSE v

\* what the user enters in a spin box
SpinInputs == {11, 16, 21}

\* what url_input holds when add_link runs: nothing, a URL of another site,
\* watch URLs ('youtube.com/watch?v=' in url) and other youtube URLs
SubmitUrls ==
    {[kind |-> "empty", video |-> 0, query |-> << >>],
     [kind |-> "other", video |-> 1, query |-> <<"t", "=", "4", "5">>],
     [kind |-> "watch", video |-> 1, query |-> << >>],
     [kind |-> "watch", video |-> 2, query |-> <<"t", "=", "4", "5">>],
     [kind |-> "short", video |-> 1, query |-> <<"t", "=", "-", "5">>],
     [kind |-> "short", video |-> 2, query |-> <<"v", "=", "I">>]}

\* what QInputDialog.getText returns: (text, ok)
DialogAnswers ==
    {[ok |-> FALSE, text |-> << >>],
     [ok |-> TRUE, text |-> << >>],
     [ok |-> TRUE, text |-> <<"8", "3">>],
     [ok |-> TRUE, text |-> <<"1", ":", "2", "3">>],
     [ok |-> TRUE, text |-> <<"-", "5">>],
     [ok |-> TRUE, text |-> <<"a">>]}

\* lines 832-844: the URL rewritten to carry the timestamp the user typed
WithTimestamp(u, start_time) ==
    IF u.kind = "watch"
    THEN [kind |-> "short", video |-> u.video, query |-> <<"t", "=">> \o IntStr(start_time)]
    ELSE IF u.query # << >>
    THEN [u EXCEPT !.query = u.query \o <<"&", "t", "=">> \o IntStr(start_time)]
    ELSE [u EXCEPT !.query = <<"t", "=">> \o IntStr(start_time)]

\* add_link_widget, lines 863-978: the entry appended to link_widgets
LinkWidget(u, start_time, duration) ==
    [url |-> u, start_time |-> start_time, duration_spinbox |-> SpinBoxValue(duration)]

SubmitInit ==
    /\ NoWorker
    /\ ClipIdle
    /\ UiIdle

\* add_link, lines 795-861, for one content of url_input and one answer of
\* the dialog (add_button is disabled while a worker runs, line 1053)
AddLink ==
    /\ pc = "idle"
    /\ Len(link_widgets) < MaxWidgets
    /\ \E u \in SubmitUrls, answer \in DialogAnswers :
          IF u.kind \in {"empty", "other"}
          THEN UNCHANGED link_widgets
          ELSE IF ~extract_timestamp_from_url(u).none
          THEN link_widgets' = Append(link_widgets,
                    LinkWidget(u, extract_timestamp_from_url(u).value, DefaultDuration))
          ELSE IF ~answer.ok
          THEN UNCHANGED link_widgets
          ELSE IF parse_timestamp(answer.text).none
          THEN UNCHANGED link_widgets
          ELSE link_widgets' = Append(link_widgets,
                    LinkWidget(WithTimestamp(u, parse_timestamp(answer.text).value),
                               parse_timestamp(answer.text).value, DefaultDuration))
    /\ UNCHANGED <<appVars, workerVars, clipVars, timestamp_str, parse_result, url_text, extract_result>>

\* the user edits the spin box of one link, while the links are still the
\* window's
SetDuration ==
    /\ pc = "idle"
    /\ \E w \in 1..Len(link_widgets), v \in SpinInputs :
          link_widgets' = [link_widgets EXCEPT ![w].duration_spinbox = SpinBoxValue(v)]
    /\ UNCHANGED <<appVars, workerVars, clipVars, timestamp_str, parse_result, url_text, extract_result>>

\* remove_link_widget, lines 980-997
RemoveLinkWidget ==
    /\ pc = "idle"
    /\ \E w \in 1..Len(link_widgets) :
          link_widgets' = SubSeq(link_widgets, 1, w - 1)
                              \o SubSeq(link_widgets, w + 1, Len(link_widgets))
    /\ UNCHANGED <<appVars, workerVars, clipVars, timestamp_str, parse_result, url_text, extract_result>>

\* clear_links, lines 1004-1012 (clear_button is disabled while a worker
\* runs, line 1054)
ClearLinks ==
    /\ pc = "idle"
    /\ link_widgets' = << >>
    /\ UNCHANGED <<appVars, workerVars, clipVars, timestamp_str, parse_result, url_text, extract_result>>

\* process_links and start_processing, lines 1022-1081: with no link a
\* warning and nothing else; otherwise one job per link, handed to a new
\* DownloadWorker (process_button is disabled while it runs, line 1052)
ProcessLinks ==
    /\ pc = "idle"
    /\ IF link_widgets = << >>
       THEN UNCHANGED <<links_data, pc, process_button, stop_button, runs>>
       ELSE /\ links_data' = [k \in 1..Len(link_widgets) |->
                                 [url        |-> link_widgets[k].url,
                                  start_time |-> link_widgets[k].start_time,
                                  duration   |-> link_widgets[k].duration_spinbox,
                                  title      |-> TrackTitle(k)]]
            /\ pc' = "start"
            /\ process_button' = FALSE
            /\ stop_button' = TRUE
            /\ runs' = runs + 1
    /\ UNCHANGED <<handled, orphans, app_pc, uiVars, clipVars, is_running, i, s, video_title, elapsed, processed_files,
                   processed_urls, temp_bound, ws_exists, files, dest, events,
                   fetchCalls, dlCalls, packagerCalls, clipCalls, obs>>

SubmitNext == AddLink \/ SetDuration \/ RemoveLinkWidget \/ ClearLinks \/ ProcessLinks

SubmitSpec == SubmitInit /\ [][SubmitNext]_vars

(* ---------------------------------------------------------------------- *)
(* create_audio_clip on its own, as the test script calls it               *)
(* ---------------------------------------------------------------------- *)
\* lines 367-368: milliseconds per second, and the seconds of the fallback's
\* window
MsPerSecond == 1000
FallbackSeconds == 15

\* the start times of the calls
ClipStarts == {0, 30, 83}

\* Optional[str]: None, or a path
NoPath == [none |-> TRUE, path |-> << >>]
SomePath(p) == [none |-> FALSE, path |-> p]

\* line 325: output_file = output_dir / f"{index+1:02d}.mp3"
ClipOutputFile(index) == Fmt02(index + 1) \o Mp3Ext

\* what subprocess.run(cmd, timeout=60) can do: return with an exit status,
\* the output file written or not, or raise (TimeoutExpired, OSError)
FfmpegOutcomes ==
    [kind : {"exit"}, returncode : {0, 1}, exists : BOOLEAN]
        \cup [kind : {"timeout", "oserror"}, returncode : {-1}, exists : {FALSE}]

\* what the pydub path can do: succeed, or raise at the import, at
\* AudioSegment.from_file or at clip.export
PydubOutcomes == {"ok", "import_raises", "load_raises", "export_raises"}

\* faulty variant of PrimarySucceeded: the output file is not looked for
M_PrimarySucceeded_ExitOnly(o) == o.kind = "exit" /\ o.returncode = 0

\* line 347: result.returncode == 0 and output_file.exists()
PrimarySucceeded(o) == o.kind = "exit" /\ o.returncode = 0 /\ o.exists

\* faulty variant of PydubResult: the path is returned whatever happened
M_PydubResult_AlwaysPath(o, index) == SomePath(ClipOutputFile(index))

\* lines 385 and 387-389: what the fallback path returns
PydubResult(o, index) == IF o = "ok" THEN SomePath(ClipOutputFile(index)) ELSE NoPath

\* a call on a worker whose run() was never started, the window untouched
ClipInit ==
    /\ NoWorker
    /\ UiIdle
    /\ clip_pc = "call"
    /\ clip_args \in [start_time : ClipStarts, index : {0},
                      duration : DurationMin..DurationMax]
    /\ clip_result = << >>
    /\ clip_log = << >>

\* lines 323-327: the entry of create_audio_clip
ClipCall ==
    /\ clip_pc = "call"
    /\ clipCalls' = Append(clipCalls, [job |-> clip_args.index, input |-> clip_args.index,
                                       output |-> ClipOutputFile(clip_args.index)])
    /\ Emit(<<Info("Creating clip", clip_args.index),
              Info("Clip parameters", clip_args.index)>>)
    /\ clip_pc' = "ffmpeg"
    /\ UNCHANGED <<appVars, uiVars, clip_args, clip_result, clip_log, links_data, pc, is_running, i, s,
                   video_title, elapsed, processed_files, processed_urls, temp_bound,
                   ws_exists, files, dest, fetchCalls, dlCalls, packagerCalls, obs>>

\* lines 329-357: the primary path, ffmpeg -ss start_time -t duration
RunFfmpeg ==
    /\ clip_pc = "ffmpeg"
    /\ \E o \in FfmpegOutcomes :
         /\ clip_log' = Append(clip_log, [path |-> "ffmpeg", ss |-> clip_args.start_time,
                                          t |-> clip_args.duration, outcome |-> o])
         /\ IF PrimarySucceeded(o)
            THEN /\ Emit(<<Info("Running FFmpeg command", clip_args.index),
                           Info("FFmpeg successfully created clip", clip_args.index)>>)
                 /\ clip_result' = <<SomePath(ClipOutputFile(clip_args.index))>>
                 /\ clip_pc' = "returned"
            ELSE /\ Emit(<<Info("Running FFmpeg command", clip_args.index),
                           Info("FFmpeg failed", clip_args.index)>>)
                 /\ clip_result' = clip_result
                 /\ clip_pc' = "pydub"
    /\ UNCHANGED <<appVars, uiVars, clip_args, clipCalls, links_data, pc, is_running, i, s,
                   video_title, elapsed, processed_files, processed_urls, temp_bound,
                   ws_exists, files, dest, fetchCalls, dlCalls, packagerCalls, obs>>

\* lines 359-389: the fallback path, audio[start_ms:end_ms] with pydub
RunPydub ==
    /\ clip_pc = "pydub"
    /\ \E o \in PydubOutcomes :
         /\ clip_log' = Append(clip_log,
               [path     |-> "pydub",
                sliced   |-> o \in {"ok", "export_raises"},
                start_ms |-> clip_args.start_time * MsPerSecond,
                end_ms   |-> clip_args.start_time * MsPerSecond
                                + FallbackSeconds * MsPerSecond,
                outcome  |-> o])
         /\ Emit(IF o = "ok"
                 THEN <<Info("Using pydub fallback", clip_args.index),
                        Info("Pydub successfully created clip", clip_args.index)>>
                 ELSE <<Info("Using pydub fallback", clip_args.index),
                        Info("Pydub processing failed", clip_args.index)>>)
         /\ clip_result' = <<PydubResult(o, clip_args.index)>>
    /\ clip_pc' = "returned"
    /\ UNCHANGED <<appVars, uiVars, clip_args, clipCalls, links_data, pc, is_running, i, s,
                   video_title, elapsed, processed_files, processed_urls, temp_bound,
                   ws_exists, files, dest, fetchCalls, dlCalls, packagerCalls, obs>>

ClipNext == ClipCall \/ RunFfmpeg \/ RunPydub

ClipSpec == ClipInit /\ [][ClipNext]_vars

(* ---------------------------------------------------------------------- *)
(* The window and its worker: start_processing, stop_processing and the    *)
(* handlers of the worker's signals, which run on the window's thread      *)
(* ---------------------------------------------------------------------- *)
\* most start_processing calls of a behaviour
MaxRuns == 2

\* the thread of download_worker executes nothing any more: run() returned,
\* an exception left it, or the thread was terminated
Stopped == {"done", "escaped", "terminated"}

\* number of threads that execute DownloadWorker.run()
Executing == orphans + (IF pc \in Stopped THEN 0 ELSE 1)

\* lines 1116-1120 and 1130-1134, also 1098-1102: # Re-enable UI
EnableUi ==
    /\ process_button' = TRUE
    /\ stop_button' = FALSE

\* handle_error, lines 1110-1122, and handle_success, lines 1124-1142: the
\* slot of the next error or finished signal of download_worker, delivered
\* through the event loop of the window's thread
HandleSignal ==
    /\ app_pc = "idle"
    /\ handled < NumTerminal
    /\ handled' = handled + 1
    /\ EnableUi
    /\ UNCHANGED <<workerVars, uiVars, clipVars, orphans, runs, app_pc>>

\* process_links and start_processing, lines 1022-1081, clicked again with
\* the links of the window unchanged: the buttons are set, a new
\* DownloadWorker is bound to download_worker and started.  The previous
\* worker is not asked whether it still runs; if it does, its thread goes on.
Resubmit ==
    /\ app_pc = "idle"
    /\ process_button
    /\ runs < MaxRuns
    /\ runs' = runs + 1
    /\ orphans' = Executing
    /\ process_button' = FALSE
    /\ stop_button' = TRUE
    /\ handled' = 0
    /\ pc' = "start"
    /\ is_running' = TRUE
    /\ i' = 0
    /\ s' = 0
    /\ video_title' = << >>
    /\ elapsed' = 0
    /\ processed_files' = << >>
    /\ processed_urls' = {}
    /\ temp_bound' = FALSE
    /\ ws_exists' = FALSE
    /\ files' = {}
    /\ events' = << >>
    /\ fetchCalls' = << >>
    /\ dlCalls' = << >>
    /\ packagerCalls' = 0
    /\ obs' = {}
    /\ UNCHANGED <<uiVars, clipVars, clipCalls, links_data, dest, app_pc>>

\* the thread of a worker that download_worker no longer names reaches the
\* end of run(); the error or finished signal it may have emitted on the way
\* is still connected to handle_error or handle_success (lines 1078-1079)
OrphanEnds ==
    /\ app_pc = "idle"
    /\ orphans > 0
    /\ orphans' = orphans - 1
    /\ \E signalled \in BOOLEAN :
          IF signalled THEN EnableUi ELSE UNCHANGED <<process_button, stop_button>>
    /\ UNCHANGED <<workerVars, uiVars, clipVars, handled, runs, app_pc>>

\* stop_processing, lines 1083-1088 and 1097-1103: with a worker that runs,
\* stop() and then the wait of line 1090; with none, the buttons only
StopProcessing ==
    /\ app_pc = "idle"
    /\ stop_button
    /\ IF pc \notin Stopped
       THEN /\ is_running' = FALSE
            /\ app_pc' = "waiting"
            /\ UNCHANGED <<process_button, stop_button>>
       ELSE /\ EnableUi
            /\ UNCHANGED <<is_running, app_pc>>
    /\ UNCHANGED <<uiVars, clipVars, clipCalls, links_data, pc, i, s, video_title, elapsed,
                   processed_files, processed_urls, temp_bound, ws_exists, files, dest,
                   events, fetchCalls, dlCalls, packagerCalls, obs, handled, orphans, runs>>

\* lines 1090 and 1095-1103: wait(5000) returns True, the worker finished
\* within the grace period
WaitReturns ==
    /\ app_pc = "waiting"
    /\ pc \in Stopped
    /\ EnableUi
    /\ app_pc' = "idle"
    /\ UNCHANGED <<workerVars, uiVars, clipVars, handled, orphans, runs>>

\* lines 1090-1103: wait(5000) returns False while run() is still inside a
\* step, terminate() ends the thread where it stands: nothing of run() is
\* executed after it, the finally block of lines 212-220 included
Terminate ==
    /\ app_pc = "waiting"
    /\ pc \notin Stopped
    /\ pc' = "terminated"
    /\ EnableUi
    /\ app_pc' = "idle"
    /\ UNCHANGED <<uiVars, clipVars, clipCalls, links_data, is_running, i, s, video_title,
                   elapsed, processed_files, processed_urls, temp_bound, ws_exists, files,
                   dest, events, fetchCalls, dlCalls, packagerCalls, obs, handled, orphans,
                   runs>>

AppNext ==
    \/ Run
    \/ HandleSignal
    \/ Resubmit
    \/ OrphanEnds
    \/ StopProcessing
    \/ WaitReturns
    \/ Terminate

AppSpec == Init /\ [][AppNext]_vars

(* ---------------------------------------------------------------------- *)
(* Properties                                                              *)
(* ---------------------------------------------------------------------- *)
Observed(w) == {o \in obs : o.what = w}

\* the Fetcher failed: download_youtube_audio returned None or raised
FetcherFailed ==
    \/ HasEvent("Info", "Failed to download audio")
    \/ HasEvent("Error", "Error processing")

\* create_output_file raised
PackagerFailed == packagerCalls > 0 /\ HasEvent("Error", "Processing failed")

\* number of events of type t and message m about job k
CountEvent(t, m, k) ==
    Cardinality({n \in 1..Len(events) :
                   events[n].type = t /\ events[n].msg = m /\ events[n].job = k})

\* C1: a run emits exactly one terminal event in total, one Done or one
\* Error: never more than one at any moment, and exactly one once it ended.
C1_ExactlyOneTerminal ==
    /\ NumTerminal <= 1
    /\ pc \in Ended => NumTerminal = 1

\* C2: when the Fetcher fails for a job after an earlier job of the run
\* produced a clip, the Packager is never invoked, no Done is emitted and
\* nothing is written to the destination directory.
C2_FetchFailureDeliversNothing ==
    (FetcherFailed /\ processed_files # << >>)
        => (packagerCalls = 0 /\ NumDone = 0 /\ dest = {})

\* C3: a run in which the Fetcher or the Packager failed ends with exactly
\* one Error event and no Done event.
C3_FailureIsOneError ==
    (pc \in Ended /\ (FetcherFailed \/ PackagerFailed))
        => (NumError = 1 /\ NumDone = 0)

\* C4: every run eventually emits a terminal event (Done or Error), on
\* every path, given that every external call returns.
C4_TerminalEventually == <>(NumTerminal >= 1)

\* C4 witness: a run that was seen cancelled at a job boundary has ended
\* and has emitted a terminal event.
C4_Witness ==
    /\ pc = "done"
    /\ NumTerminal >= 1
    /\ Observed("cancel") # {}

\* C5 as stated: once the run has ended, the workspace it created no
\* longer exists.
C5_WorkspaceGone ==
    (pc \in Ended /\ temp_bound) => ~ws_exists

\* C5 amended: on every exit path the run has attempted the recursive
\* removal of the workspace it created before it ends, and the workspace
\* and its files no longer exist unless that removal itself failed.
C5_WorkspaceRemovalAttempted ==
    (pc \in Ended /\ temp_bound)
        => /\ Observed("removed") \cup Observed("remove_failed") # {}
           /\ Observed("remove_failed") = {} => (~ws_exists /\ files = {})

\* C5 witness: a run that produced a clip and then failed has ended with
\* its workspace removed.
C5_Witness ==
    /\ pc = "done"
    /\ processed_files # << >>
    /\ NumDone = 0
    /\ Observed("removed") # {}
    /\ ~ws_exists

\* C6: once the elapsed-time budget is found exceeded at a job boundary,
\* the Packager is never invoked and no Done event is emitted.
C6_TimeoutNeverPackages ==
    Observed("over") # {} => (packagerCalls = 0 /\ NumDone = 0)

\* C7: if the elapsed time exceeds 600 s when job k is about to start (and
\* the run was not seen cancelled there), the Fetcher is invoked neither for
\* job k nor for a later job, and the timeout Error event is emitted.
C7_TimeoutStopsFetching ==
    \A o \in Observed("over") :
        /\ \A n \in 1..Len(fetchCalls) : fetchCalls[n] < o.job
        /\ HasEvent("Error", "Processing timeout")

\* C7 witness: the budget was found exceeded at the boundary of a job other
\* than the first, in a run that was never stopped, and the run has ended.
C7_Witness ==
    /\ pc = "done"
    /\ is_running
    /\ \E o \in Observed("over") : o.job >= 1
    /\ Len(fetchCalls) >= 1

\* the Fetcher was invoked at most once per source URL
NoRepeatedFetch ==
    \A a, b \in 1..Len(fetchCalls) :
        a # b => Job(fetchCalls[a]).url # Job(fetchCalls[b]).url

\* every job that reached the dedup check with the URL of an earlier job
\* has exactly one skip event and no Fetcher call
DuplicatesSkipped ==
    \A o \in Observed("dup") :
        /\ CountEvent("Info", "Skipping duplicate URL", o.job) = 1
        /\ \A n \in 1..Len(fetchCalls) : fetchCalls[n] # o.job

\* the step that leaves the dedup check of such a job emits no Error and
\* goes on to the next job
SkipStep ==
    (/\ pc = "dedup"
     /\ pc' # "dedup"
     /\ \E j \in 0..(i - 1) : Job(j).url = Job(i).url)
        => (NumError' = NumError /\ pc' = "loop" /\ i' = i + 1)

\* C8: within one run the Fetcher is never invoked twice for the same
\* source URL: a job whose URL equals that of an earlier job is skipped with
\* exactly one Info skip event, without a Fetcher call and without making
\* the run fail.
C8_Dedup == [](NoRepeatedFetch /\ DuplicatesSkipped) /\ [][SkipStep]_vars

\* C8 witness: a job with the URL of an earlier job was reached and the run
\* went on to a later job with another URL.
C8_Witness ==
    /\ Observed("dup") # {}
    /\ Len(fetchCalls) >= 2
    /\ pc = "done"

\* C9: a run stopped by cancellation emits no Error event.
C9_CancelledEmitsNoError ==
    (pc \in Ended /\ Observed("cancel") # {}) => NumError = 0

\* C10: once the run has read the cancellation flag as set at a job
\* boundary, it invokes the Fetcher for no further job and never invokes the
\* Packager.
C10_CancelStopsWork ==
    \A o \in Observed("cancel") :
        /\ \A n \in 1..Len(fetchCalls) : fetchCalls[n] < o.job
        /\ packagerCalls = 0

\* C10 witness: the flag was read as set at the boundary of a later job,
\* after clips had been produced, and the run has ended.
C10_Witness ==
    /\ pc = "done"
    /\ processed_files # << >>
    /\ \E o \in Observed("cancel") : o.job >= 1

Delivered == {d \in dest : d.kind # "partial"}

\* C12: the Packager is never invoked with zero ClipResults, and when it
\* succeeds it has produced exactly one deliverable: a single bare file and no
\* archive for exactly one ClipResult, one zip archive and no bare file for
\* two or more.
C12_SingleOrArchive ==
    /\ packagerCalls > 0 => Len(processed_files) >= 1
    /\ Cardinality(Delivered) <= 1
    /\ NumDone >= 1 =>
          /\ Cardinality(Delivered) = 1
          /\ \A d \in Delivered :
                /\ Len(d.entries) = Len(processed_files)
                /\ d.kind = (IF Len(processed_files) = 1 THEN "file" ELSE "zip")

\* C12 witness: a run with one clip has delivered a bare file.
C12_Witness ==
    /\ NumDone = 1
    /\ Len(processed_files) = 1
    /\ \E d \in Delivered : d.kind = "file"

\* C13: for N >= 2 submitted jobs that all succeed the archive has exactly N
\* entries, the n-th of which starts with the 2-digit number n and a hyphen.
C13_ArchiveNumbering ==
    (NumDone = 1 /\ NJobs >= 2 /\ Len(processed_files) = NJobs) =>
        \A d \in Delivered :
            /\ d.kind = "zip"
            /\ Len(d.entries) = NJobs
            /\ \A n \in 1..NJobs :
                  /\ Len(d.entries[n]) >= 3
                  /\ SubSeq(d.entries[n], 1, 3) =
                        <<DigitChars[(n \div 10) + 1], DigitChars[(n % 10) + 1], "-">>

\* C13 witness: a list of two or more jobs, all of them successful, and the
\* archive was delivered.
C13_Witness ==
    /\ NumDone = 1
    /\ NJobs >= 2
    /\ Len(processed_files) = NJobs
    /\ \E d \in Delivered : d.kind = "zip"

\* the characters a sanitized stem may hold
AllowedStemChar(c) == IsAlnum(c) \/ c \in {"-", "_"}

\* position of the first hyphen of a name
FirstHyphen(e) == CHOOSE p \in 1..Len(e) : e[p] = "-" /\ \A q \in 1..(p - 1) : e[q] # "-"

\* the stem of the n-th entry of deliverable d: the name without ".mp3" and,
\* in an archive, without the number and its hyphen
EntryStem(d, n) ==
    LET e == d.entries[n]
    IN  IF d.kind = "file" THEN SubSeq(e, 1, Len(e) - 4)
        ELSE SubSeq(e, FirstHyphen(e) + 1, Len(e) - 4)

\* the title read character by character: alphanumerics, hyphens and
\* underscores kept, spaces turned into underscores, the rest dropped
RECURSIVE KeptChars(_)
KeptChars(x) ==
    IF x = << >> THEN << >>
    ELSE (IF Head(x) = " " THEN <<"_">>
          ELSE IF AllowedStemChar(Head(x)) THEN <<Head(x)>>
          ELSE << >>) \o KeptChars(Tail(x))

\* the title up to its last alphanumeric, hyphen or underscore
UpToLastKept(x) ==
    LET ps == {p \in 1..Len(x) : AllowedStemChar(x[p])}
    IN  IF ps = {} THEN << >>
        ELSE SubSeq(x, 1, CHOOSE p \in ps : \A q \in ps : q <= p)

\* C17: every sanitized stem holds only alphanumerics, hyphens and
\* underscores and is at most 40 characters long; it is the first 40 of the
\* kept characters of its title, in order, with every space that is followed
\* by a kept character turned into an underscore; equal titles give equal
\* stems.
C17_SanitizedStem ==
    \A d \in Delivered :
        \A n \in 1..Len(d.entries) :
            /\ \A p \in 1..Len(EntryStem(d, n)) : AllowedStemChar(EntryStem(d, n)[p])
            /\ Len(EntryStem(d, n)) <= 40
            /\ EntryStem(d, n) =
                  SubSeq(KeptChars(UpToLastKept(processed_files[n].title)), 1,
                         IF Len(KeptChars(UpToLastKept(processed_files[n].title))) < 40
                         THEN Len(KeptChars(UpToLastKept(processed_files[n].title)))
                         ELSE 40)
            /\ \A m \in 1..Len(d.entries) :
                  processed_files[m].title = processed_files[n].title
                      => EntryStem(d, m) = EntryStem(d, n)

\* C17 witness: a title longer than 40 characters with spaces and dropped
\* characters has been written under a stem of exactly 40 characters.
C17_Witness ==
    \E d \in Delivered :
        \E n \in 1..Len(d.entries) :
            /\ Len(processed_files[n].title) > 40
            /\ Len(EntryStem(d, n)) = 40
            /\ \E p \in 1..40 : EntryStem(d, n)[p] = "_"

\* C18: within one archive, entries of ClipResults with distinct indices
\* have distinct names.
C18_DistinctEntryNames ==
    \A d \in Delivered :
        d.kind = "zip" =>
            \A a, b \in 1..Len(d.entries) :
                processed_files[a].index # processed_files[b].index
                    => d.entries[a] # d.entries[b]

\* C18 witness: an archive holds two clips of distinct indices whose titles
\* are identical and sanitize to the empty text.
C18_Witness ==
    \E d \in Delivered :
        /\ d.kind = "zip"
        /\ processed_files[1].title = processed_files[2].title
        /\ processed_files[1].index # processed_files[2].index
        /\ EntryStem(d, 1) = << >>

\* the colon-separated parts of the stripped argument of the call
ArgParts == Split(Strip(timestamp_str), ":")

\* every part is a text int() accepts
AllIntegers == \A p \in 1..Len(ArgParts) : IntAccepts(ArgParts[p])

\* C15: parse_timestamp returns n for an integer text n, 60*m+s for "m:s" and
\* 3600*h+60*m+s for "h:m:s", and None for every other shape: the empty text,
\* a part that is not an integer text, four or more colon-separated parts.
\* An integer text is what int() accepts, inside a text that is stripped.
C15_ParseShapes ==
    parse_result # << >> =>
        /\ (Len(ArgParts) = 1 /\ AllIntegers) =>
               parse_result[1] = Some(IntValue(ArgParts[1]))
        /\ (Len(ArgParts) = 2 /\ AllIntegers) =>
               parse_result[1] = Some(60 * IntValue(ArgParts[1]) + IntValue(ArgParts[2]))
        /\ (Len(ArgParts) = 3 /\ AllIntegers) =>
               parse_result[1] = Some(3600 * IntValue(ArgParts[1])
                                        + 60 * IntValue(ArgParts[2]) + IntValue(ArgParts[3]))
        /\ (Len(ArgParts) >= 4 \/ ~AllIntegers) => parse_result[1] = None
        /\ timestamp_str = <<"8", "3">> => parse_result[1] = Some(83)
        /\ timestamp_str = <<"1", ":", "2", "3">> => parse_result[1] = Some(83)
        /\ timestamp_str = <<"1", ":", "0", "2", ":", "2", "3">> => parse_result[1] = Some(3743)
        /\ timestamp_str = <<"a">> => parse_result[1] = None
        /\ timestamp_str = << >> => parse_result[1] = None
        /\ timestamp_str = <<"1", ":", "1", ":", "1", ":", "1">> => parse_result[1] = None

\* C15 witness: an "h:m:s" text has been parsed to its seconds, which are
\* neither its minutes-and-seconds reading nor None.
C15_Witness ==
    /\ parse_result = <<Some(3743)>>
    /\ Len(ArgParts) = 3

\* the fields of the query of the call's URL as they are written, blank
\* values included
WrittenFields ==
    [n \in 1..Len(Split(url_text.query, "&")) |-> Field(Split(url_text.query, "&")[n])]

\* the written fields called name, and those of them with a value
Written(name) == SelectSeq(WrittenFields, LAMBDA f : f.name = name)
WithValue(name) == SelectSeq(Written(name), LAMBDA f : f.value # << >>)

\* C16 as stated: the result is parse(value of t) whenever t is written in the
\* query, else parse(value of time_continue) whenever that is written, else
\* None; a malformed URL yields None.
C16_WrittenTWins ==
    extract_result # << >> =>
        extract_result[1] =
            IF url_text.kind = "malformed" THEN None
            ELSE IF Written(ParamT) # << >>
                 THEN parse_timestamp(Written(ParamT)[1].value)
            ELSE IF Written(ParamTimeContinue) # << >>
                 THEN parse_timestamp(Written(ParamTimeContinue)[1].value)
            ELSE None

\* C16 amended: the result is parse(first non-empty value of t) when t is
\* written with a non-empty value, else parse(first non-empty value of
\* time_continue) when that is written with one, else None; a malformed URL
\* yields None; a t with a non-empty value that does not parse yields None
\* whatever time_continue holds.
C16_ValuedTWins ==
    extract_result # << >> =>
        /\ extract_result[1] =
              IF url_text.kind = "malformed" THEN None
              ELSE IF WithValue(ParamT) # << >>
                   THEN parse_timestamp(WithValue(ParamT)[1].value)
              ELSE IF WithValue(ParamTimeContinue) # << >>
                   THEN parse_timestamp(WithValue(ParamTimeContinue)[1].value)
              ELSE None
        /\ url_text.kind = "short" =>
              /\ url_text.query = <<"v", "=", "I", "&", "t", "=", "4", "5">> => extract_result[1] = Some(45)
              /\ url_text.query = <<"v", "=", "I">> => extract_result[1] = None
              /\ url_text.query = <<"t", "=", "a", "&", "t", "i", "m", "e", "_", "c", "o", "n", "t", "i", "n", "u", "e", "=", "3", "0">> => extract_result[1] = None
              /\ url_text.query = <<"v", "=", "I", "&", "t", "i", "m", "e", "_", "c", "o", "n", "t", "i", "n", "u", "e", "=", "3", "0">> => extract_result[1] = Some(30)
              /\ url_text.query = <<"t", "=", "&", "t", "i", "m", "e", "_", "c", "o", "n", "t", "i", "n", "u", "e", "=", "3", "0">> => extract_result[1] = Some(30)
              /\ url_text.query = <<"t", "=", "1", ":", "2", "3", "&", "t", "=", "4", "5">> => extract_result[1] = Some(83)

\* C16 witness: t has a value that does not parse, time_continue has one that
\* does, and the call returned None.
C16_Witness ==
    /\ url_text.kind = "short"
    /\ url_text.query = <<"t", "=", "a", "&", "t", "i", "m", "e", "_", "c", "o", "n", "t", "i", "n", "u", "e", "=", "3", "0">>
    /\ extract_result = <<None>>

\* C14: every job handed to a worker has start_time >= 0 and a duration
\* within 12..20, whatever timestamp text parse_timestamp accepted and
\* whatever URL add_link accepted.
C14_JobWithinBounds ==
    \A k \in 1..Len(links_data) :
        /\ links_data[k].start_time >= 0
        /\ links_data[k].duration \in DurationMin..DurationMax

\* C19: when the raising strategy is the last one (the "All download
\* strategies exhausted" message of line 317) the Fetcher call of that job
\* raises, so that run() reports it at line 187, and does not return.
C19_LastRaiseIsFetchFailed ==
    \A k \in 0..(NJobs - 1) :
        CountEvent("Info", "All download strategies exhausted", k) > 0 =>
            /\ CountEvent("Error", "Error processing", k) > 0
            /\ CountEvent("Info", "Failed to download audio", k) = 0

\* number of yt_dlp calls made for job k
Attempts(k) == Cardinality({n \in 1..Len(dlCalls) : dlCalls[n] = k})

\* a strategy of the Fetcher call of job k found a file
FoundFile(k) ==
    CountEvent("Info", "Found downloaded file", k)
        + CountEvent("Info", "Found audio file", k) > 0

\* C20: once a strategy of a Fetcher call has found a file, the call returns
\* it (run() accumulates it under the job's index) and attempts nothing more:
\* every attempt of the call is the finding one or an earlier one that failed,
\* and the call does not end in "All download strategies failed".
C20_FirstFileWins ==
    \A k \in 0..(NJobs - 1) :
        FoundFile(k) =>
            /\ \E n \in 1..Len(processed_files) : processed_files[n].index = k
            /\ Attempts(k) = 1 + CountEvent("Info", "Strategy failed", k)
                               + CountEvent("Info", "Strategy completed but no file found", k)
            /\ CountEvent("Info", "Trying download strategy", k) = Attempts(k)
            /\ CountEvent("Error", "Error processing", k) = 0

\* C20 witness: the strategy of the second job's Fetcher call found the file
\* it downloaded, the call returned it, and the run is past it.
C20_Witness ==
    /\ CountEvent("Info", "Found downloaded file", 1) > 0
    /\ Len(processed_files) = 2
    /\ processed_files[2].file = 1
    /\ pc \in Ended

\* C21: when the cancellation flag is set at the head of the strategy loop of
\* job k's Fetcher call, the call returns without raising (run() takes its
\* "Failed to download" branch, not its handler) and the download capability
\* is invoked neither for that strategy nor for a later one: the only attempts
\* of the call are the earlier ones that failed.
C21_CancelledFetchReturns ==
    \A o \in Observed("cancel_fetch") :
        /\ CountEvent("Info", "Download stopped by user", o.job) = 1
        /\ Attempts(o.job) = CountEvent("Info", "Strategy failed", o.job)
                               + CountEvent("Info", "Strategy completed but no file found", o.job)
        /\ CountEvent("Info", "Trying download strategy", o.job) = Attempts(o.job)
        /\ CountEvent("Error", "Error processing", o.job) = 0
        /\ CountEvent("Info", "Failed to download audio", o.job) = 1

\* C21 witness: the second job's Fetcher call found the flag set and the run
\* has ended.
C21_Witness ==
    /\ \E o \in Observed("cancel_fetch") : o.job = 1
    /\ Len(dlCalls) = 1
    /\ pc \in Ended

\* job k has a ClipResult in the accumulator
Processed(k) == \E n \in 1..Len(processed_files) : processed_files[n].index = k

\* positions of the events of type t and message m about job k
EventsAt(t, m, k) ==
    {n \in 1..Len(events) : events[n].type = t /\ events[n].msg = m /\ events[n].job = k}

\* C25: a job that was not processed successfully gets no MemorySample and no
\* pause.  A successfully processed job gets exactly one MemorySample (once
\* the run is past lines 191-194) and, once the run is past lines 196-199,
\* one pause when it is not the last job of the list and none when it is; the
\* pause comes after the MemorySample.
C25_MemoryThenPause ==
    \A k \in 0..(NJobs - 1) :
        /\ ~Processed(k) =>
              /\ CountEvent("Memory", "memory_mb", k) = 0
              /\ CountEvent("Info", "Waiting 2 seconds before next song", k) = 0
        /\ Processed(k) =>
              /\ CountEvent("Memory", "memory_mb", k) = (IF i = k /\ pc = "mem" THEN 0 ELSE 1)
              /\ CountEvent("Info", "Waiting 2 seconds before next song", k) =
                    (IF i = k /\ pc \in {"mem", "pause"} THEN 0
                     ELSE IF k # NJobs - 1 THEN 1 ELSE 0)
              /\ \A w \in EventsAt("Info", "Waiting 2 seconds before next song", k) :
                    \E m \in EventsAt("Memory", "memory_mb", k) : m < w

\* C25 witness: two jobs succeeded, the first was followed by a MemorySample
\* and a pause, the second, the last of the list, by a MemorySample alone,
\* and the run has ended.
C25_Witness ==
    /\ NJobs = 2
    /\ Processed(0)
    /\ Processed(1)
    /\ CountEvent("Info", "Waiting 2 seconds before next song", 0) = 1
    /\ CountEvent("Memory", "memory_mb", 1) = 1
    /\ pc \in Ended

\* the accumulator is strictly increasing in index
StrictlyIncreasing(pf) ==
    \A a, b \in 1..Len(pf) : a < b => pf[a].index < pf[b].index

\* C26: in every state of a run the accumulator is strictly increasing in
\* index, and every step leaves it as it is or appends one element to it.
C26_AppendOnly ==
    /\ [](StrictlyIncreasing(processed_files))
    /\ [][\/ processed_files' = processed_files
          \/ /\ Len(processed_files') = Len(processed_files) + 1
             /\ SubSeq(processed_files', 1, Len(processed_files)) = processed_files]_vars

\* C26 witness: the accumulator holds two ClipResults whose indices are not
\* consecutive (the job between them was skipped).
C26_Witness ==
    /\ Len(processed_files) = 2
    /\ processed_files[1].index = 0
    /\ processed_files[2].index = 2

\* C27 as stated: when create_output_file raised after every job of the list
\* succeeded, the run has emitted exactly one Error event and no Done event,
\* and once it has ended the workspace no longer exists.
C27_PackagerFailureWorkspaceGone ==
    (Observed("packager_raised") # {} /\ Len(processed_files) = NJobs) =>
        /\ NumError = 1
        /\ NumDone = 0
        /\ pc \in Ended => ~ws_exists

\* C27 amended: when create_output_file raised after every job of the list
\* succeeded, the run has emitted exactly one Error event and no Done event,
\* and once it has ended it has attempted the removal of the workspace, which
\* no longer exists unless that removal failed.
C27_PackagerFailureOneError ==
    (Observed("packager_raised") # {} /\ Len(processed_files) = NJobs) =>
        /\ NumError = 1
        /\ NumDone = 0
        /\ pc \in Ended =>
              /\ Observed("removed") \cup Observed("remove_failed") # {}
              /\ Observed("remove_failed") = {} => (~ws_exists /\ files = {})

\* C27 witness: both jobs of a list succeeded, create_output_file raised with
\* the archive half written, and the run has ended with the workspace removed.
C27_Witness ==
    /\ NJobs = 2
    /\ Len(processed_files) = 2
    /\ Observed("packager_raised") # {}
    /\ \E d \in dest : d.kind = "partial"
    /\ Observed("removed") # {}
    /\ pc = "done"

\* C28: a step in which the removal of the workspace fails adds no Error and
\* no Done event, adds nothing but Info events, and ends the run as a step in
\* which the removal succeeds does.
C28_CleanupFailureIsSilent ==
    [][Observed("remove_failed")' # Observed("remove_failed") =>
          /\ CountType(events', "Error") = CountType(events, "Error")
          /\ CountType(events', "Done") = CountType(events, "Done")
          /\ \A n \in (Len(events) + 1)..Len(events') : events'[n].type = "Info"
          /\ SubSeq(events', 1, Len(events)) = events
          /\ pc' = "done"]_vars

\* C28 witness: a run that delivered its output has ended with a Done event,
\* no Error event, and its workspace still on disk after a failed removal.
C28_Witness ==
    /\ pc = "done"
    /\ Observed("remove_failed") # {}
    /\ ws_exists
    /\ NumDone = 1
    /\ NumError = 0

\* C29: the file recorded for job k is the file temp_<k> that job k's own
\* download wrote, never a file an earlier job left in the workspace.
C29_OwnFileReturned ==
    \A n \in 1..Len(processed_files) :
        processed_files[n].file = processed_files[n].index

\* C30: a terminal event (Done or Error) is the last event of the stream, no
\* Info event follows it, and the workspace no longer exists from the moment
\* it is emitted.
C30_TerminalEventLast ==
    /\ \A n \in 1..Len(events) :
          events[n].type \in {"Done", "Error"} =>
              \A m \in (n + 1)..Len(events) : events[m].type # "Info"
    /\ NumTerminal >= 1 => ~ws_exists

\* the attempts of the primary and of the fallback path of the call
FfmpegRuns == SelectSeq(clip_log, LAMBDA r : r.path = "ffmpeg")
PydubRuns == SelectSeq(clip_log, LAMBDA r : r.path = "pydub")

\* C22: whenever the fallback path slices, it slices the window
\* [start*1000 ms, (start+duration)*1000 ms) of the call's start and duration.
C22_FallbackWindow ==
    \A n \in 1..Len(PydubRuns) :
        PydubRuns[n].sliced =>
            /\ PydubRuns[n].start_ms = clip_args.start_time * 1000
            /\ PydubRuns[n].end_ms = (clip_args.start_time + clip_args.duration) * 1000

\* the primary attempt r ended with exit status 0 and its output on disk
ZeroExitAndFile(r) ==
    r.outcome.kind = "exit" /\ r.outcome.returncode = 0 /\ r.outcome.exists

\* C23: once the primary path has run, the fallback is the next thing to run
\* exactly when the primary did not end with exit status 0 and its output
\* file on disk (non-zero status, missing file, timeout, any exception); when
\* the primary succeeded the call has returned the output path and the
\* fallback has not run.
C23_FallbackIffPrimaryFailed ==
    /\ PydubRuns # << >> => FfmpegRuns # << >>
    /\ FfmpegRuns # << >> =>
          IF ZeroExitAndFile(FfmpegRuns[1])
          THEN /\ PydubRuns = << >>
               /\ clip_pc = "returned"
               /\ clip_result = <<SomePath(ClipOutputFile(clip_args.index))>>
          ELSE \/ clip_pc = "pydub" /\ PydubRuns = << >> /\ clip_result = << >>
               \/ clip_pc = "returned" /\ Len(PydubRuns) = 1

\* C23 witness: the primary path succeeded for a duration other than the
\* default and the call returned its output without the fallback.
C23_Witness ==
    /\ clip_pc = "returned"
    /\ clip_args.duration = 20
    /\ Len(FfmpegRuns) = 1
    /\ ZeroExitAndFile(FfmpegRuns[1])
    /\ PydubRuns = << >>
    /\ clip_result = <<SomePath(ClipOutputFile(0))>>

\* C24: a call ends by returning, never by raising: it returns None exactly
\* when the primary path failed and the fallback path failed too, and the
\* output path otherwise; each path runs at most once.
C24_NoneIffBothFailed ==
    /\ clip_pc \in {"call", "ffmpeg", "pydub", "returned"}
    /\ Len(FfmpegRuns) <= 1
    /\ Len(PydubRuns) <= 1
    /\ clip_pc # "returned" => clip_result = << >>
    /\ clip_pc = "returned" =>
          /\ Len(FfmpegRuns) = 1
          /\ Len(clip_result) = 1
          /\ clip_result[1].none <=>
                /\ ~ZeroExitAndFile(FfmpegRuns[1])
                /\ \E n \in 1..Len(PydubRuns) : PydubRuns[n].outcome # "ok"
          /\ ~clip_result[1].none =>
                clip_result[1].path = Fmt02(clip_args.index + 1) \o <<".", "m", "p", "3">>

\* C24 witness: the primary path timed out, the fallback raised while
\* exporting, and the call returned None.
C24_Witness ==
    /\ clip_pc = "returned"
    /\ Len(FfmpegRuns) = 1
    /\ FfmpegRuns[1].outcome.kind = "timeout"
    /\ Len(PydubRuns) = 1
    /\ PydubRuns[1].outcome = "export_raises"
    /\ clip_result = <<NoPath>>

\* C31: no exception leaves run(): whatever fails, the creation of the
\* temporary workspace included, the run ends by returning.
C31_NoExceptionEscapes ==
    pc # "escaped"

\* C32: when the flag is found cleared at line 201 with clips accumulated,
\* the Packager is not invoked, no Done event is emitted and the run reports
\* "No files were successfully processed"; when the flag is cleared while
\* create_output_file runs and that call does not raise, the call still
\* delivers and Done is emitted.
C32_StopBeforePackagingDiscards ==
    /\ [](Observed("stopped_with_clips") # {} =>
             /\ packagerCalls = 0
             /\ dest = {}
             /\ NumDone = 0
             /\ CountEvent("Error", "No files were successfully processed", -1) = 1)
    /\ [][(/\ pc = "package"
           /\ ~is_running
           /\ pc' # "package"
           /\ Observed("packager_raised")' = {}) =>
             /\ CountType(events', "Done") = 1
             /\ Delivered' # {}]_vars

\* C32 witness: both jobs of a list succeeded, the flag was found cleared
\* at line 201 and the run has ended.
C32_Witness ==
    /\ NJobs = 2
    /\ Len(processed_files) = 2
    /\ Observed("stopped_with_clips") # {}
    /\ pc = "done"

\* positions of the inter-job pause announcements of the run
PauseEvents ==
    {n \in 1..Len(events) :
        events[n].type = "Info" /\ events[n].msg = "Waiting 2 seconds before next song"}

\* C35: the number of MemorySample events equals the number of jobs whose
\* fetch succeeded (less the one of lines 191-194 while the run stands
\* between the append and the signal); the pauses are no more than the
\* samples; a skipped duplicate and a job that was not processed have no
\* MemorySample and no pause.
C35_MemorySamplesCountSuccesses ==
    /\ CountType(events, "Memory") =
          Len(processed_files) - (IF pc = "mem" THEN 1 ELSE 0)
    /\ Cardinality(PauseEvents) <= CountType(events, "Memory")
    /\ \A k \in 0..(NJobs - 1) :
          (\/ CountEvent("Info", "Skipping duplicate URL", k) = 1
           \/ CountEvent("Info", "Failed to download audio", k) = 1
           \/ CountEvent("Error", "Error processing", k) = 1) =>
              /\ ~Processed(k)
              /\ CountEvent("Memory", "memory_mb", k) = 0
              /\ CountEvent("Info", "Waiting 2 seconds before next song", k) = 0

\* C35 witness: of three jobs the first succeeded, the second was skipped as
\* a duplicate and the third failed; the run ended with one MemorySample.
C35_Witness ==
    /\ NJobs = 3
    /\ Processed(0)
    /\ CountEvent("Info", "Skipping duplicate URL", 1) = 1
    /\ 2 \in {fetchCalls[n] : n \in 1..Len(fetchCalls)}
    /\ ~Processed(2)
    /\ CountType(events, "Memory") = 1
    /\ pc \in Ended

\* the number an archive entry starts with: its first two characters
EntryNumber(d, n) ==
    10 * DigitValue(d.entries[n][1]) + DigitValue(d.entries[n][2])

\* the jobs the run skipped as duplicates
Skipped ==
    {j \in 0..(NJobs - 1) : CountEvent("Info", "Skipping duplicate URL", j) = 1}

\* the numbers the entries of an archive start with
EntryNumbers(d) == {EntryNumber(d, n) : n \in 1..Len(d.entries)}

\* every entry of an archive starts with the 1-based position of its job in
\* the submitted list, a position that counts the duplicates skipped before
\* it; the n-th entry belongs to the job of the n-th call of the fetcher,
\* since a failed call ends the loop
PrefixIsPosition(d) ==
    d.kind = "zip" =>
        \A n \in 1..Len(d.entries) :
            /\ d.entries[n][3] = "-"
            /\ EntryNumber(d, n) = fetchCalls[n] + 1
            /\ fetchCalls[n] =
                  (n - 1) + Cardinality({j \in Skipped : j < fetchCalls[n]})

\* two submitted jobs, the second a duplicate: one bare file
TwoJobsSecondDuplicate(d) ==
    (NJobs = 2 /\ 1 \in Skipped) =>
        /\ d.kind = "file"
        /\ Len(d.entries) = 1

\* C36 as stated: prefixes are submitted positions, and whenever a duplicate
\* was skipped the prefixes of the archive are not the range 1..M.
C36_SkippedDuplicateBreaksRange ==
    \A d \in Delivered :
        /\ PrefixIsPosition(d)
        /\ (d.kind = "zip" /\ Skipped # {}) =>
              EntryNumbers(d) # 1..Len(d.entries)
        /\ TwoJobsSecondDuplicate(d)

\* C36 amended: prefixes are submitted positions; the prefixes of the archive
\* differ from the range 1..M exactly when a duplicate was skipped before an
\* accepted job, and are the range 1..M when every skipped duplicate comes
\* after the last accepted job; two jobs of which the second is a duplicate
\* give one bare file.
C36_PrefixIsSubmittedPosition ==
    \A d \in Delivered :
        /\ PrefixIsPosition(d)
        /\ d.kind = "zip" =>
              ((\E j \in Skipped : j < fetchCalls[Len(d.entries)])
                  <=> EntryNumbers(d) # 1..Len(d.entries))
        /\ TwoJobsSecondDuplicate(d)

\* C36 witness: of three jobs the second was skipped as a duplicate and the
\* archive holds the entries numbered 1 and 3.
C36_Witness ==
    /\ NJobs = 3
    /\ Skipped = {1}
    /\ \E d \in Delivered :
          /\ d.kind = "zip"
          /\ EntryNumbers(d) = {1, 3}

\* C33: at most one DownloadWorker run is executing at any time.
C33_SingleWorker ==
    Executing <= 1

\* C34: a run whose worker was terminated by stop_processing has removed its
\* workspace and emitted a terminal event.  A terminated thread takes no
\* further step, so what it has not done by then it never does.
C34_TerminatedRunCleansUp ==
    pc = "terminated" =>
        /\ ~ws_exists
        /\ NumTerminal >= 1

====
